---- MODULE Spec2Model ----
(***************************************************************************)
(* The State / StateTensor data model of all/core/state.py and the         *)
(* DeepmindAtariBody exercised by all/bodies/atari_test.py.                *)
(*                                                                         *)
(* Tensors are records [kind, shape, data] with the data in row-major      *)
(* order.  Booleans are written 0/1 and floats as integers (dtype is not   *)
(* modelled: done.float() and bool-to-float promotion keep the 0/1 value). *)
(***************************************************************************)
EXTENDS Integers, Sequences, FiniteSets, TLC

\* ------------------------------------------------------------------ bounds
MaxBatch == 2
MaxList == 2
MaxDims == 2
MaxDepth == 2
MaxNoop == 2
MaxLives == 2

\* cur: the object the caller's variable is bound to; last: the latest call, its
\* arguments as they were before (ins) and after (after) it, and what it returned
\* depth: how many calls lie between cur and the constructor call that began it
VARIABLES cur, last, depth

\* body: the fields of the DeepmindAtariBody and the environment it was built for;
\* agent: the fields of the MockAgent it wraps; step: what the latest call of
\* body.act did (the agent calls it made, the action it returned) and the history
\* of the current life (raw frames, raw rewards not yet delivered)
VARIABLES body, agent, step

\* ----------------------------------------------------------------- tensors
Raise == [kind |-> "raise", shape |-> <<>>, data |-> <<>>]
Absent == [kind |-> "absent", shape |-> <<>>, data |-> <<>>]
Scalar(v) == [kind |-> "py", shape |-> <<>>, data |-> <<v>>]
Tensor(shape, data) == [kind |-> "tensor", shape |-> shape, data |-> data]
Opaque(n) == [kind |-> "obj", shape |-> <<>>, data |-> <<n>>]

RECURSIVE Prod(_)
Prod(s) == IF s = <<>> THEN 1 ELSE Head(s) * Prod(Tail(s))

RECURSIVE Flat(_)
Flat(ss) == IF ss = <<>> THEN <<>> ELSE Head(ss) \o Flat(Tail(ss))

DropDims(s, n) == IF n >= Len(s) THEN <<>> ELSE SubSeq(s, n + 1, Len(s))

Iota(shape, base) == Tensor(shape, [i \in 1..Prod(shape) |-> base + i])
Full(shape, v) == Tensor(shape, [i \in 1..Prod(shape) |-> v])

IsTensor(v) == v.kind = "tensor"

\* v[i] for an integer i (negative i counts from the end)
TIndex(v, i) ==
    IF ~IsTensor(v) \/ v.shape = <<>> THEN Raise
    ELSE LET n == Head(v.shape)
             j == IF i < 0 THEN i + n ELSE i
             m == Prod(Tail(v.shape))
         IN IF j < 0 \/ j >= n THEN Raise
            ELSE Tensor(Tail(v.shape), SubSeq(v.data, j * m + 1, (j + 1) * m))

\* v[lo:hi]
TSlice(v, lo, hi) ==
    IF ~IsTensor(v) \/ v.shape = <<>> THEN Raise
    ELSE LET n == Head(v.shape)
             a == IF lo > n THEN n ELSE lo
             b == IF hi > n THEN n ELSE hi
             c == IF b < a THEN a ELSE b
             m == Prod(Tail(v.shape))
         IN Tensor(<<c - a>> \o Tail(v.shape), SubSeq(v.data, a * m + 1, c * m))

\* v[key] for a one-dimensional index tensor key
TGather(v, key) ==
    IF ~IsTensor(v) \/ v.shape = <<>> THEN Raise
    ELSE IF \E p \in 1..Len(key) : key[p] < 0 \/ key[p] >= Head(v.shape) THEN Raise
    ELSE Tensor(<<Len(key)>> \o Tail(v.shape),
                Flat([p \in 1..Len(key) |-> TIndex(v, key[p]).data]))

\* v.view(shape)
TView(v, shape) ==
    IF ~IsTensor(v) \/ Prod(shape) # Len(v.data) THEN Raise
    ELSE Tensor(shape, v.data)

\* torch.stack(vs)
TStack(vs) ==
    IF \E p \in 1..Len(vs) : ~IsTensor(vs[p]) \/ vs[p].shape # vs[1].shape THEN Raise
    ELSE Tensor(<<Len(vs)>> \o vs[1].shape, Flat([p \in 1..Len(vs) |-> vs[p].data]))

\* torch.tensor([...]) of python scalars (zero-dimensional tensors convert too)
TFromScalars(vs) ==
    IF \E p \in 1..Len(vs) : ~(vs[p].kind = "py" \/ (IsTensor(vs[p]) /\ vs[p].shape = <<>>))
    THEN Raise
    ELSE Tensor(<<Len(vs)>>, Flat([p \in 1..Len(vs) |-> vs[p].data]))

\* v.unsqueeze(-1)
TUnsqueezeLast(v) == IF ~IsTensor(v) THEN Raise ELSE Tensor(v.shape \o <<1>>, v.data)

\* 1. - v
OneMinus(v) ==
    IF v.kind = "py" THEN Scalar(1 - v.data[1])
    ELSE IF IsTensor(v) THEN Tensor(v.shape, [i \in 1..Len(v.data) |-> 1 - v.data[i]])
    ELSE Raise

\* v.float()
Float(v) == IF IsTensor(v) THEN v ELSE Raise

\* broadcasting: shapes are right-aligned, a dimension of 1 stretches
PadShape(s, n) == [i \in 1..n |-> IF i <= n - Len(s) THEN 1 ELSE s[i - (n - Len(s))]]
Max(a, b) == IF a >= b THEN a ELSE b
SufProd(s, i) == Prod(DropDims(s, i))
Unravel(f, s) == [i \in 1..Len(s) |-> (f \div SufProd(s, i)) % s[i]]
RECURSIVE RavelFrom(_, _, _)
RavelFrom(idx, s, i) ==
    IF i > Len(s) THEN 0 ELSE idx[i] * SufProd(s, i) + RavelFrom(idx, s, i + 1)
BroadcastAt(v, p, idx) ==
    v.data[1 + RavelFrom([i \in 1..Len(p) |-> IF p[i] = 1 THEN 0 ELSE idx[i]], p, 1)]

\* a * b
TMul(a, b) ==
    IF a.kind \notin {"py", "tensor"} \/ b.kind \notin {"py", "tensor"} THEN Raise
    ELSE LET n == Max(Len(a.shape), Len(b.shape))
             pa == PadShape(a.shape, n)
             pb == PadShape(b.shape, n)
         IN IF \E i \in 1..n : pa[i] # pb[i] /\ pa[i] # 1 /\ pb[i] # 1 THEN Raise
            ELSE LET o == [i \in 1..n |-> Max(pa[i], pb[i])]
                 IN Tensor(o, [f \in 1..Prod(o) |->
                        BroadcastAt(a, pa, Unravel(f - 1, o))
                        * BroadcastAt(b, pb, Unravel(f - 1, o))])

\* ------------------------------------------------------------ dictionaries
Keys == {"observation", "reward", "done", "mask", "info"}
CoreKeys == {"observation", "reward", "done", "mask"}
NoKw == [k \in Keys |-> Absent]
Present(d) == {k \in Keys : d[k] # Absent}
SetItems(x, kwargs) == [k \in Keys |-> IF kwargs[k] # Absent THEN kwargs[k] ELSE x[k]]
Default(x, k, v) == IF x[k] = Absent THEN [x EXCEPT ![k] = v] ELSE x

\* -------------------------------------------------------------- State.__init__
\* x is the dict the body of __init__ works on: the caller's own dict or state
\* when one was passed, a fresh {'observation': x} otherwise.  The result gives
\* x as the call leaves it and the items of the new instance.
State_init(x, kwargs) ==
    LET x1 == SetItems(x, kwargs)
    IN IF x1["observation"] = Absent
       THEN [raised |-> TRUE, x |-> x1, items |-> NoKw]
       ELSE LET x2 == Default(Default(x1, "reward", Scalar(0)), "done", Scalar(0))
                m == OneMinus(x2["done"])
            IN IF x2["mask"] = Absent /\ m = Raise
               THEN [raised |-> TRUE, x |-> x2, items |-> NoKw]
               ELSE LET x3 == Default(x2, "mask", m)
                    IN [raised |-> FALSE, x |-> x3, items |-> x3]

StateTensor_init(x, shape, kwargs) ==
    LET x1 == SetItems(x, kwargs)
    IN IF x1["observation"] = Absent
       THEN [raised |-> TRUE, x |-> x1, items |-> NoKw]
       ELSE LET x2 == Default(Default(x1, "reward", Full(shape, 0)), "done", Full(shape, 0))
                m == OneMinus(Float(x2["done"]))
            IN IF x2["mask"] = Absent /\ (Float(x2["done"]) = Raise \/ m = Raise)
               THEN [raised |-> TRUE, x |-> x2, items |-> NoKw]
               ELSE State_init(Default(x2, "mask", m), NoKw)

\* ----------------------------------------------------------------- objects
\* An object of the caller's program: a plain dict, a State or a StateTensor.
\* maskGiven is history, not a field of the class: whether the caller supplied
\* the mask value the object holds.
NoObj == [cls |-> "none", shape |-> <<>>, d |-> NoKw, maskGiven |-> FALSE]
MkObj(cls, shape, r, given) ==
    IF r.raised THEN NoObj
    ELSE [cls |-> cls, shape |-> shape, d |-> r.items, maskGiven |-> given]
Made(cls, shape, r, given) == [raised |-> r.raised, obj |-> MkObj(cls, shape, r, given)]
Raised == [raised |-> TRUE, obj |-> NoObj]

State_update(self, key, value) ==
    LET x == [k \in Keys |-> IF k = key THEN value ELSE self.d[k]]
    IN Made("State", <<>>, State_init(x, NoKw), self.maskGiven \/ key = "mask")

StateTensor_update(self, key, value) ==
    LET x == [k \in Keys |-> IF k = key THEN value ELSE self.d[k]]
    IN Made("StateTensor", self.shape, StateTensor_init(x, self.shape, NoKw),
            self.maskGiven \/ key = "mask")

\* one key of from_list: stacked, or left out when the try block raises
Combine(list, key) ==
    LET vs == [p \in 1..Len(list) |-> list[p].d[key]]
        c == IF IsTensor(vs[1]) THEN TStack(vs) ELSE TFromScalars(vs)
    IN IF c = Raise THEN Absent ELSE c

from_list(list) ==
    LET shape == <<Len(list)>> \o list[1].shape
        x == [k \in Keys |-> IF list[1].d[k] = Absent THEN Absent ELSE Combine(list, k)]
    IN Made("StateTensor", shape, StateTensor_init(x, shape, NoKw),
            x["mask"] # Absent /\ \E p \in 1..Len(list) : list[p].maskGiven)

State_apply_mask(self, tensor) == TMul(tensor, self.d["mask"])

StateTensor_apply_mask(self, tensor) == TMul(tensor, TUnsqueezeLast(self.d["mask"]))

flatten(self) ==
    LET n == Prod(self.shape)
        dims == Len(self.shape)
        x == [k \in Keys |-> IF self.d[k] = Absent THEN Absent
                             ELSE TView(self.d[k], <<n>> \o DropDims(self.d[k].shape, dims))]
    IN IF \E k \in Keys : x[k] = Raise THEN Raised
       ELSE Made("StateTensor", <<n>>, StateTensor_init(x, <<n>>, NoKw), self.maskGiven)

view_TargetDims(self, shape) ==
    LET dims == Len(shape)
        x == [k \in Keys |-> IF self.d[k] = Absent THEN Absent
                             ELSE TView(self.d[k], shape \o DropDims(self.d[k].shape, dims))]
    IN IF \E k \in Keys : x[k] = Raise THEN Raised
       ELSE Made("StateTensor", shape, StateTensor_init(x, shape, NoKw), self.maskGiven)

view(self, shape) ==
    LET dims == Len(self.shape)
        x == [k \in Keys |-> IF self.d[k] = Absent THEN Absent
                             ELSE TView(self.d[k], shape \o DropDims(self.d[k].shape, dims))]
    IN IF \E k \in Keys : x[k] = Raise THEN Raised
       ELSE Made("StateTensor", shape, StateTensor_init(x, shape, NoKw), self.maskGiven)

getitem_slice(self, lo, hi) ==
    LET m == TSlice(self.d["mask"], lo, hi)
        x == [k \in Keys |-> IF self.d[k] = Absent THEN Absent ELSE TSlice(self.d[k], lo, hi)]
    IN IF m = Raise \/ \E k \in Keys : x[k] = Raise THEN Raised
       ELSE Made("StateTensor", m.shape, StateTensor_init(x, m.shape, NoKw), self.maskGiven)

getitem_int(self, i) ==
    LET x == [k \in Keys |-> IF self.d[k] = Absent THEN Absent ELSE TIndex(self.d[k], i)]
    IN IF \E k \in Keys : x[k] = Raise THEN Raised
       ELSE Made("State", <<>>, State_init(x, NoKw), self.maskGiven)

getitem_tensor(self, key) ==
    LET m == TGather(self.d["mask"], key)
        g == [k \in Keys |-> IF self.d[k] = Absent THEN Absent ELSE TGather(self.d[k], key)]
        x == [k \in Keys |-> IF g[k] = Raise THEN Absent ELSE g[k]]
    IN IF m = Raise THEN Raised
       ELSE Made("StateTensor", m.shape, StateTensor_init(x, m.shape, NoKw), self.maskGiven)

\* ------------------------------------------------------------------- inputs
Kw1(k, v) == [NoKw EXCEPT ![k] = v]
SingleObs == {Iota(<<2>>, 0), Iota(<<3>>, 0)}
StateKwargs ==
    {NoKw, Kw1("done", Scalar(1)), Kw1("info", Opaque(7)),
     [NoKw EXCEPT !["done"] = Scalar(1), !["mask"] = Scalar(1)]}
BatchShapes == {<<MaxBatch>>, <<MaxBatch, MaxBatch>>}
BatchObs(shape) == Iota(shape \o <<2>>, 0)
Flags(shape) == Tensor(shape, [i \in 1..Prod(shape) |-> i % 2])
TensorKwargs(shape) == {NoKw, Kw1("done", Flags(shape))}
Dicts == {Kw1("observation", Iota(<<2>>, 0)), Kw1("reward", Scalar(5))}
UpdateArgs(self) ==
    IF self.cls = "State"
    THEN {<<"done", Scalar(1)>>, <<"mask", Scalar(0)>>, <<"info", Opaque(7)>>}
    ELSE {<<"done", Full(self.shape, 1)>>, <<"reward", Iota(self.shape, 0)>>,
          <<"info", Tensor(<<1>>, <<9>>)>>}
ViewShapes == BatchShapes \cup {<<MaxBatch * MaxBatch>>}
Slices == {<<0, 1>>, <<1, MaxBatch>>, <<0, MaxBatch>>}
IndexTensors == {<<0>>, <<1>>, <<1, 0>>}
FeatureShapes == {<<>>, <<2>>, <<2, 2>>}

\* ------------------------------------------------------------------- actions
IsState(o) == o.cls \in {"State", "StateTensor"}
Call(op, raised, ins, after, key, idx, val, res, out) ==
    [op |-> op, raised |-> raised, ins |-> ins, after |-> after, key |-> key,
     idx |-> idx, val |-> val, res |-> res, out |-> out, orig |-> NoObj]
Bind(r) == IF r.raised THEN cur ELSE r.obj
Fresh(obs) == Made("State", <<>>, State_init(Kw1("observation", obs), NoKw), FALSE).obj

\* s = {...}: the caller builds a plain dict
MakeDict ==
    /\ UNCHANGED <<body, agent, step>>
    /\ \E d \in Dicts :
        LET o == [cls |-> "dict", shape |-> <<>>, d |-> d, maskGiven |-> d["mask"] # Absent]
        IN /\ cur' = o
           /\ last' = Call("dict", FALSE, <<>>, <<>>, "", <<>>, Absent, o, Absent)
           /\ depth' = 0

\* s = State(obs, **kwargs) with obs a tensor
NewState ==
    /\ UNCHANGED <<body, agent, step>>
    /\ \E obs \in SingleObs, kw \in StateKwargs :
        LET r == Made("State", <<>>, State_init(Kw1("observation", obs), kw),
                      kw["mask"] # Absent)
        IN /\ cur' = Bind(r)
           /\ last' = Call("State", r.raised, <<>>, <<>>, "", <<>>, Absent, r.obj, Absent)
           /\ depth' = 0

\* s = StateTensor(obs, shape, **kwargs) with obs a tensor
NewStateTensor ==
    /\ UNCHANGED <<body, agent, step>>
    /\ \E shape \in BatchShapes :
        \E kw \in TensorKwargs(shape) :
            LET r == Made("StateTensor", shape,
                          StateTensor_init(Kw1("observation", BatchObs(shape)), shape, kw),
                          kw["mask"] # Absent)
            IN /\ cur' = Bind(r)
               /\ last' = Call("StateTensor", r.raised, <<>>, <<>>, "", shape, Absent,
                               r.obj, Absent)
               /\ depth' = 0

\* State(s, **kwargs) with s a dict or a State: __init__ works on s itself.  The
\* caller keeps the new instance (rebind) or goes on with s.
StateFrom ==
    /\ UNCHANGED <<body, agent, step>>
    /\ depth < MaxDepth
    /\ depth' = depth + 1
    /\ cur.cls \in {"dict", "State"}
    /\ \E kw \in StateKwargs, rebind \in BOOLEAN :
        LET i == State_init(cur.d, kw)
            given == kw["mask"] # Absent \/ cur.d["mask"] # Absent
            r == Made("State", <<>>, i, given)
            after == [cur EXCEPT !.d = i.x, !.maskGiven = given]
        IN /\ cur' = IF rebind /\ ~r.raised THEN r.obj ELSE after
           /\ last' = Call("State_from", r.raised, <<cur>>, <<after>>, "", <<>>, Absent,
                           r.obj, Absent)

\* StateTensor(s, s.shape, **kwargs) with s a StateTensor
StateTensorFrom ==
    /\ UNCHANGED <<body, agent, step>>
    /\ depth < MaxDepth
    /\ depth' = depth + 1
    /\ cur.cls = "StateTensor"
    /\ \E kw \in TensorKwargs(cur.shape), rebind \in BOOLEAN :
        LET i == StateTensor_init(cur.d, cur.shape, kw)
            r == Made("StateTensor", cur.shape, i, TRUE)
            after == [cur EXCEPT !.d = i.x, !.maskGiven = TRUE]
        IN /\ cur' = IF rebind /\ ~r.raised THEN r.obj ELSE after
           /\ last' = Call("StateTensor_from", r.raised, <<cur>>, <<after>>, "", cur.shape,
                           Absent, r.obj, Absent)

\* s = s.update(key, value)
Update ==
    /\ UNCHANGED <<body, agent, step>>
    /\ depth < MaxDepth
    /\ depth' = depth + 1
    /\ IsState(cur)
    /\ \E a \in UpdateArgs(cur) :
        LET r == IF cur.cls = "State" THEN State_update(cur, a[1], a[2])
                 ELSE StateTensor_update(cur, a[1], a[2])
        IN /\ cur' = Bind(r)
           /\ last' = Call("update", r.raised, <<cur>>, <<cur>>, a[1], <<>>, a[2],
                           r.obj, Absent)

\* s = State.from_list([...]) over s and freshly built states
FromList ==
    /\ UNCHANGED <<body, agent, step>>
    /\ depth < MaxDepth
    /\ depth' = depth + 1
    /\ IsState(cur)
    /\ Len(cur.shape) < MaxDims
    /\ \E n \in 1..MaxList :
        \E list \in [1..n -> {cur} \cup {Fresh(obs) : obs \in SingleObs}] :
            /\ \E p \in 1..n : list[p] = cur
            /\ LET r == from_list(list)
               IN /\ cur' = Bind(r)
                  /\ last' = Call("from_list", r.raised, list, list, "", <<>>, Absent,
                                  r.obj, Absent)

\* s = s[i]
GetItemInt ==
    /\ UNCHANGED <<body, agent, step>>
    /\ depth < MaxDepth
    /\ depth' = depth + 1
    /\ cur.cls = "StateTensor"
    /\ \E i \in 0..(Head(cur.shape) - 1) :
        LET r == getitem_int(cur, i)
        IN /\ cur' = Bind(r)
           /\ last' = Call("getitem_int", r.raised, <<cur>>, <<cur>>, "", <<i>>, Absent,
                           r.obj, Absent)

\* s = s[lo:hi]
GetItemSlice ==
    /\ UNCHANGED <<body, agent, step>>
    /\ depth < MaxDepth
    /\ depth' = depth + 1
    /\ cur.cls = "StateTensor"
    /\ \E sl \in Slices :
        /\ sl[1] < Head(cur.shape)
        /\ sl[2] <= Head(cur.shape)
        /\ LET r == getitem_slice(cur, sl[1], sl[2])
           IN /\ cur' = Bind(r)
              /\ last' = Call("getitem_slice", r.raised, <<cur>>, <<cur>>, "", sl, Absent,
                              r.obj, Absent)

\* s = s[key] with key an index tensor
GetItemTensor ==
    /\ UNCHANGED <<body, agent, step>>
    /\ depth < MaxDepth
    /\ depth' = depth + 1
    /\ cur.cls = "StateTensor"
    /\ \E key \in IndexTensors :
        LET r == getitem_tensor(cur, key)
        IN /\ cur' = Bind(r)
           /\ last' = Call("getitem_tensor", r.raised, <<cur>>, <<cur>>, "", key, Absent,
                           r.obj, Absent)

\* s = s.flatten()
Flatten ==
    /\ UNCHANGED <<body, agent, step>>
    /\ depth < MaxDepth
    /\ depth' = depth + 1
    /\ cur.cls = "StateTensor"
    /\ LET r == flatten(cur)
       IN /\ cur' = Bind(r)
          /\ last' = Call("flatten", r.raised, <<cur>>, <<cur>>, "", <<>>, Absent,
                          r.obj, Absent)

\* s = s.view(shape); orig is the batch s was flattened from, when the call
\* before this one was that flatten()
View ==
    /\ UNCHANGED <<body, agent, step>>
    /\ depth < MaxDepth
    /\ depth' = depth + 1
    /\ cur.cls = "StateTensor"
    /\ \E shape \in ViewShapes :
        LET r == view(cur, shape)
            orig == IF last.op = "flatten" /\ ~last.raised THEN last.ins[1] ELSE NoObj
        IN /\ cur' = Bind(r)
           /\ last' = [Call("view", r.raised, <<cur>>, <<cur>>, "", shape, Absent,
                            r.obj, Absent) EXCEPT !.orig = orig]

\* s.apply_mask(t) with t of shape s.shape + f
ApplyMask ==
    /\ UNCHANGED <<body, agent, step>>
    /\ IsState(cur)
    /\ \E f \in FeatureShapes :
        LET t == Iota(cur.shape \o f, 0)
            out == IF cur.cls = "State" THEN State_apply_mask(cur, t)
                   ELSE StateTensor_apply_mask(cur, t)
        IN /\ cur' = cur
           /\ last' = Call("apply_mask", out = Raise, <<cur>>, <<cur>>, "", f, t, NoObj, out)
           /\ depth' = depth

\* ------------------------------------------------------------ the MockAgent
NOOP_ACTION == 0
INITIAL_ACTION == 3
ACT_ACTION == 4

MockAgent_initial(a, state) ==
    [agent |-> [a EXCEPT !.state = state], ret |-> INITIAL_ACTION]

MockAgent_act(a, state, reward) ==
    [agent |-> [a EXCEPT !.state = state, !.reward = reward, !.rewardSet = TRUE],
     ret |-> ACT_ACTION]

MockAgent_terminal(a, reward) == [a EXCEPT !.reward = reward, !.rewardSet = TRUE]

NewAgent == [state |-> <<>>, reward |-> 0, rewardSet |-> FALSE]

\* ------------------------------------------------------- DeepmindAtariBody
\* all/bodies/atari.py is not among the sources: the body follows sections 4.1
\* to 4.4 of the specification, and what the assertions of atari_test.py fix
\* beyond them: the agent's action is held for ActionRepeat steps and is given
\* the sum of the clipped rewards of those steps; where the environment's
\* action table starts with FIRE the first two steps of an episode return the
\* actions FIRE1 and FIRE2.  A frame is one pixel: the tests feed uniform frames,
\* which grayscale and downsampling leave uniform.
ActionRepeat == 4
FIRE1 == 1
FIRE2 == 2
DefaultFrameStack == 4
NoAction == -1

ClipReward_Unclipped(r) == r
ClipReward(r) == IF r > 0 THEN 1 ELSE IF r < 0 THEN -1 ELSE 0
Deflicker_Off(frame, prev) == frame
Deflicker(frame, prev) == Max(frame, prev)
InitStack(n, f) == [i \in 1..n |-> f]
PushStack(stack, f) == Tail(stack) \o <<f>>

TerminalCalls_DoneOnly(isDone, lifeLost, reward, raws) ==
    IF isDone
    THEN <<[fn |-> "terminal", reward |-> reward, raws |-> raws, state |-> <<>>]>>
    ELSE <<>>

\* the terminal hook: at done, and at a life lost without done
TerminalCalls(isDone, lifeLost, reward, raws) ==
    IF isDone \/ lifeLost
    THEN <<[fn |-> "terminal", reward |-> reward, raws |-> raws, state |-> <<>>]>>
    ELSE <<>>

NoopSteps_OneMore(k) == k + 1

\* how many no-op steps an episode or life begins with, for the sampled count k
NoopSteps(k) == k

LastN(n, q) == IF Len(q) <= n THEN q ELSE SubSeq(q, Len(q) - n + 1, Len(q))
Min(a, b) == IF a <= b THEN a ELSE b

\* body.act(state, reward): one step, for the raw frame, the raw reward, done and
\* the life count the environment reports, and the no-op count k sampled if an
\* episode or life begins here
BodyAct ==
    /\ UNCHANGED <<cur, last, depth>>
    /\ body.phase # "terminal"
    /\ \E frame \in body.frames, r \in body.rewards, done \in BOOLEAN,
          lives \in 0..MaxLives, k \in 0..body.noop_max :
        /\ body.phase = "start" => ~done
        /\ body.phase # "start" => lives <= body.lives
        /\ body.fire => lives = 0
        /\ LET n == body.frame_stack
               c == ClipReward(r)
               isStart == body.phase = "start"
               isDone == ~isStart /\ done
               lifeLost == ~isStart /\ ~done /\ lives < body.lives
               newCycle == isStart \/ lifeLost
               term == TerminalCalls(isDone, lifeLost, body.acc + c, step.win \o <<r>>)
               agent1 == IF term = <<>> THEN agent
                         ELSE MockAgent_terminal(agent, term[1].reward)
               pre == IF newCycle THEN Deflicker(frame, frame)
                      ELSE Deflicker(frame, body.prev)
               stack1 == IF newCycle THEN InitStack(n, pre) ELSE PushStack(body.stack, pre)
               phase1 == IF ~newCycle THEN body.phase
                         ELSE IF body.fire THEN "fire" ELSE "noop"
               noops1 == IF newCycle THEN NoopSteps(k) ELSE body.noops
               fires1 == IF newCycle THEN 2 ELSE body.fires
               hist1 == IF newCycle THEN <<frame>> ELSE LastN(n + 1, step.hist \o <<frame>>)
               b1 == [body EXCEPT !.prev = frame, !.stack = stack1, !.lives = lives]
               s1 == [step EXCEPT !.taken = TRUE, !.hist = hist1, !.calls = term,
                                  !.boundary = IF isDone THEN "done"
                                               ELSE IF lifeLost THEN "life" ELSE "none",
                                  !.wasStarted = step.started,
                                  !.started = IF newCycle THEN FALSE ELSE step.started,
                                  !.agentRet = IF newCycle THEN NoAction ELSE step.agentRet,
                                  !.k = IF newCycle THEN k ELSE step.k,
                                  !.t = IF newCycle THEN 1 ELSE Min(step.t + 1, MaxNoop + 3)]
           IN IF isDone
              THEN /\ body' = [b1 EXCEPT !.phase = "terminal", !.acc = 0, !.count = 0]
                   /\ agent' = agent1
                   /\ step' = [s1 EXCEPT !.returned = NoAction, !.win = <<>>]
              ELSE IF phase1 = "fire"
              THEN /\ body' = [b1 EXCEPT !.phase = IF fires1 = 1 THEN "noop" ELSE "fire",
                                         !.fires = fires1 - 1, !.noops = 0,
                                         !.acc = 0, !.count = 0]
                   /\ agent' = agent1
                   /\ step' = [s1 EXCEPT !.returned = IF fires1 = 2 THEN FIRE1 ELSE FIRE2,
                                         !.win = <<>>]
              ELSE IF phase1 = "noop" /\ noops1 > 0
              THEN /\ body' = [b1 EXCEPT !.phase = "noop", !.noops = noops1 - 1,
                                         !.acc = 0, !.count = 0]
                   /\ agent' = agent1
                   /\ step' = [s1 EXCEPT !.returned = NOOP_ACTION, !.win = <<>>]
              ELSE IF phase1 = "noop"
              THEN LET a == MockAgent_initial(agent1, stack1)
                   IN /\ body' = [b1 EXCEPT !.phase = "active", !.noops = 0, !.acc = 0,
                                            !.count = 0, !.action = a.ret]
                      /\ agent' = a.agent
                      /\ step' = [s1 EXCEPT !.returned = a.ret, !.win = <<>>,
                                            !.started = TRUE, !.agentRet = a.ret,
                                            !.calls = term \o <<[fn |-> "initial",
                                                reward |-> 0, raws |-> <<>>,
                                                state |-> stack1]>>]
              ELSE IF body.count + 1 = ActionRepeat
              THEN LET a == MockAgent_act(agent1, stack1, body.acc + c)
                   IN /\ body' = [b1 EXCEPT !.acc = 0, !.count = 0, !.action = a.ret]
                      /\ agent' = a.agent
                      /\ step' = [s1 EXCEPT !.returned = a.ret, !.win = <<>>,
                                            !.agentRet = a.ret,
                                            !.calls = <<[fn |-> "act",
                                                reward |-> body.acc + c,
                                                raws |-> step.win \o <<r>>,
                                                state |-> stack1]>>]
              ELSE /\ body' = [b1 EXCEPT !.acc = body.acc + c, !.count = body.count + 1]
                   /\ agent' = agent1
                   /\ step' = [s1 EXCEPT !.returned = body.action,
                                         !.win = step.win \o <<r>>]

NewStep ==
    [taken |-> FALSE, calls |-> <<>>, returned |-> NoAction, boundary |-> "none",
     started |-> FALSE, wasStarted |-> FALSE, agentRet |-> NoAction, k |-> 0, t |-> 0,
     hist |-> <<>>, win |-> <<>>]

\* env.reset() after the episode ended
EnvReset ==
    /\ UNCHANGED <<cur, last, depth, agent>>
    /\ body.phase = "terminal"
    /\ body' = [body EXCEPT !.phase = "start"]
    /\ step' = NewStep

NewBody(noop_max, frame_stack, fire, frames, rewards) ==
    [noop_max |-> noop_max, frame_stack |-> frame_stack, fire |-> fire,
     frames |-> frames, rewards |-> rewards,
     phase |-> "start", noops |-> 0, fires |-> 0, lives |-> 0, prev |-> 0,
     stack |-> <<>>, count |-> 0, acc |-> 0, action |-> NoAction]

RawRewards == {-5, 0, 2}
RawFrames == {1, 2}

\* ------------------------------------------------------------ specifications
NoCall == Call("none", FALSE, <<>>, <<>>, "", <<>>, Absent, NoObj, Absent)

Init ==
    /\ cur = NoObj
    /\ depth = 0
    /\ last = NoCall
    /\ body = NewBody(0, DefaultFrameStack, FALSE, {1}, {0})
    /\ agent = NewAgent
    /\ step = NewStep

Next ==
    \/ MakeDict
    \/ NewState
    \/ NewStateTensor
    \/ StateFrom
    \/ StateTensorFrom
    \/ Update
    \/ FromList
    \/ GetItemInt
    \/ GetItemSlice
    \/ GetItemTensor
    \/ Flatten
    \/ View
    \/ ApplyMask

vars == <<cur, last, depth, body, agent, step>>
Spec == Init /\ [][Next]_vars

\* the body over the rewards and life counts of an episode, one frame value
BodyInit ==
    /\ cur = NoObj
    /\ depth = 0
    /\ last = NoCall
    /\ \E noop_max \in 0..MaxNoop, fire \in BOOLEAN :
        /\ fire => noop_max = 0
        /\ body = NewBody(noop_max, DefaultFrameStack, fire, {1}, RawRewards)
    /\ agent = NewAgent
    /\ step = NewStep

BodyNext == BodyAct \/ EnvReset
BodySpec == BodyInit /\ [][BodyNext]_vars

\* the body over the frames of an episode, every reward 0
FrameInit ==
    /\ cur = NoObj
    /\ depth = 0
    /\ last = NoCall
    /\ \E noop_max \in 0..1, frame_stack \in {1, DefaultFrameStack} :
        body = NewBody(noop_max, frame_stack, FALSE, RawFrames, {0})
    /\ agent = NewAgent
    /\ step = NewStep

FrameSpec == FrameInit /\ [][BodyNext]_vars

\* ------------------------------------------------------------------ claims
MaskMatches(o) ==
    /\ o.d["mask"].shape = o.d["done"].shape
    /\ Len(o.d["mask"].data) = Len(o.d["done"].data)
    /\ \A i \in 1..Len(o.d["mask"].data) : o.d["mask"].data[i] = 1 - o.d["done"].data[i]

\* every field is a tensor whose leading dimensions are the batch shape
WellFormed(o) ==
    /\ o.cls = "StateTensor"
    /\ \A k \in Present(o.d) :
        /\ IsTensor(o.d[k])
        /\ Len(o.d[k].shape) >= Len(o.shape)
        /\ SubSeq(o.d[k].shape, 1, Len(o.shape)) = o.shape

\* C1: every State and StateTensor, built by its constructor or derived by
\* update, from_list, indexing, flatten and view, has mask = 1 - done unless
\* the caller supplied the mask.
C1_MaskIsOneMinusDone ==
    \A o \in {cur, last.res} : (IsState(o) /\ ~o.maskGiven) => MaskMatches(o)

\* C2: no call changes a state or dict it receives: each input has after the
\* call the keys and values it had before.
C2_InputsUnchanged ==
    \A p \in 1..Len(last.ins) : last.after[p].d = last.ins[p].d

\* C3: indexing a StateTensor of any batch shape by an in-range integer i gives
\* a State of shape () no field of which keeps a batch dimension, each field
\* being the batch's field at i.
C3_IntIndexRemovesBatchDims ==
    (last.op = "getitem_int") =>
        LET b == last.ins[1]
            i == last.idx[1]
        IN /\ ~last.raised
           /\ last.res.cls = "State"
           /\ last.res.shape = <<>>
           /\ \A k \in Present(b.d) :
                LET m == Prod(Tail(b.d[k].shape))
                IN /\ last.res.d[k].shape = DropDims(b.d[k].shape, Len(b.shape))
                   /\ Len(last.res.d[k].data) = m
                   /\ \A j \in 1..m : last.res.d[k].data[j] = b.d[k].data[i * m + j]

\* C8: s.apply_mask(t) with t of shape s.shape + F has the shape of t and at
\* each batch slot t's entries times that slot's mask, for any feature shape F.
C8_ApplyMaskScalesSlots ==
    (last.op = "apply_mask") =>
        LET s == last.ins[1]
            t == last.val
            per == Prod(last.idx)
        IN /\ last.out # Raise
           /\ last.out.shape = t.shape
           /\ Len(last.out.data) = Len(t.data)
           /\ \A f \in 1..Len(t.data) :
                last.out.data[f] = t.data[f] * s.d["mask"].data[((f - 1) \div per) + 1]

\* C9: for a StateTensor of batch shape S whose fields carry S as leading
\* dimensions, flatten() gives a StateTensor of shape (product(S),) with each
\* field's trailing shape kept, and flatten().view(S) gives back shape S and
\* every field of the original.
C9_FlattenViewRoundTrip ==
    /\ (last.op = "flatten" /\ WellFormed(last.ins[1])) =>
        LET b == last.ins[1]
        IN /\ ~last.raised
           /\ last.res.cls = "StateTensor"
           /\ last.res.shape = <<Prod(b.shape)>>
           /\ Present(last.res.d) = Present(b.d)
           /\ \A k \in Present(b.d) :
                /\ last.res.d[k].shape
                     = <<Prod(b.shape)>> \o DropDims(b.d[k].shape, Len(b.shape))
                /\ last.res.d[k].data = b.d[k].data
    /\ (last.op = "view" /\ WellFormed(last.orig) /\ last.idx = last.orig.shape) =>
        /\ ~last.raised
        /\ last.res.cls = "StateTensor"
        /\ last.res.shape = last.orig.shape
        /\ last.res.d = last.orig.d

C9_Witness ==
    /\ last.op = "view"
    /\ WellFormed(last.orig)
    /\ Len(last.orig.shape) = 2
    /\ last.idx = last.orig.shape
    /\ last.res.d["done"].data # last.res.d["mask"].data

\* C10: from_list over a non-empty list and indexing by a tensor never raise on
\* a field that cannot be combined or gathered, and observation, reward, done
\* and mask of the result are always the combination or gather of the inputs'
\* own values.
C10_CoreFieldsKept ==
    /\ (last.op = "from_list") =>
        /\ ~last.raised
        /\ \A k \in CoreKeys :
            /\ last.res.d[k].shape = <<Len(last.ins)>> \o last.ins[1].d[k].shape
            /\ last.res.d[k].data = Flat([p \in 1..Len(last.ins) |-> last.ins[p].d[k].data])
    /\ (last.op = "getitem_tensor"
        /\ \A p \in 1..Len(last.idx) : last.idx[p] < Head(last.ins[1].shape)) =>
        /\ ~last.raised
        /\ \A k \in CoreKeys :
            last.res.d[k].data
              = Flat([p \in 1..Len(last.idx) |->
                        LET v == last.ins[1].d[k]
                            m == Prod(Tail(v.shape))
                        IN SubSeq(v.data, last.idx[p] * m + 1, (last.idx[p] + 1) * m)])

\* ---------------------------------------------------------- claims: the body
AgentCalls == {i \in 1..Len(step.calls) : step.calls[i].fn \in {"initial", "act"}}
TerminalHooks == {i \in 1..Len(step.calls) : step.calls[i].fn = "terminal"}
Deliveries == {i \in 1..Len(step.calls) : step.calls[i].fn \in {"act", "terminal"}}
Sign(r) == IF r = 0 THEN 0 ELSE IF r > 0 THEN 1 ELSE -1
RECURSIVE SumSigns(_)
SumSigns(q) == IF q = <<>> THEN 0 ELSE Sign(Head(q)) + SumSigns(Tail(q))

HookProtocol ==
    /\ step.boundary # "none" <=> Cardinality(TerminalHooks) = 1
    /\ Cardinality(TerminalHooks) <= 1
    /\ step.boundary # "none" => step.calls[1].fn = "terminal"
    /\ \A i \in AgentCalls :
        /\ step.calls[i].fn = "act" => (step.wasStarted /\ step.boundary = "none")
        /\ step.calls[i].fn = "initial" => (~step.wasStarted \/ step.boundary = "life")

Flickerless(hist, j) == IF j = 1 THEN hist[1] ELSE Max(hist[j], hist[j - 1])
ExpectedStack(hist, n) ==
    LET l == Len(hist)
    IN [i \in 1..n |-> IF l > n THEN Flickerless(hist, i + 1)
                       ELSE IF i <= n - l THEN hist[1]
                       ELSE Flickerless(hist, i - (n - l))]

\* C7: after every step the stack holds N = frame_stack frames, oldest first: N
\* copies of the first frame at the start of an episode, then the oldest frame
\* out and max(raw frame, previous raw frame) in; and that stack is the
\* observation the agent is given.
C7_FrameStackIsFifoOfDeflickered ==
    step.taken =>
        /\ Len(body.stack) = body.frame_stack
        /\ body.stack = ExpectedStack(step.hist, body.frame_stack)
        /\ \A i \in AgentCalls : step.calls[i].state = body.stack

C7_Witness ==
    /\ body.frame_stack = 4
    /\ step.hist = <<1, 1, 2, 1, 1>>
    /\ \E i \in AgentCalls : step.calls[i].state = <<1, 2, 2, 1>>
    /\ agent.state = <<1, 2, 2, 1>>

====
